---- MODULE Spec2Model ----
(***************************************************************************)
(* A model of bfvos/train.py: the triplet pool builder                     *)
(* (create_triplet_pools), the training loop (train), the validation loop  *)
(* (validate) and the epoch driver (main).                                 *)
(*                                                                         *)
(* Tensors are records [shape |-> <<d1, ..>>, data |-> f] with f a         *)
(* function on 0-based index tuples, as in the source.  The embedding      *)
(* network is opaque: each scalar it produces is modelled by the tag       *)
(* <<frame, channel, row, column>> of the place it was produced for, so    *)
(* that two scalars are equal only if they come from the same place.       *)
(***************************************************************************)
EXTENDS Integers, Sequences, FiniteSets, TLC

\* Bounds of the model.
MaxPixels == 4      \* masks and embedding fields have at most this many pixels
EmbDim == 2         \* embedding vector dimensions (args.embedding_vector_dims)
MaxEpochs == 2      \* args.num_epochs ranges over 1..MaxEpochs
MaxInterval == 2    \* args.log_interval, args.checkpoint_interval in 1..MaxInterval
MaxSamples == 2     \* data loader lengths in 0..MaxSamples, the cap in -1..MaxSamples

VARIABLES
    sample,             \* the sample handed to create_triplet_pools
    triplet_pools,      \* what create_triplet_pools returned (or that it has not run)
    pc,                 \* position in main / train / validate
    args,               \* parse_args(): the run's configuration
    train_data_len,     \* number of samples train_data_loader yields per epoch
    val_data_len,       \* number of samples val_data_loader yields per epoch
    epoch,              \* main's loop variable
    next_idx,           \* the index enumerate(data_loader) yields next
    training,           \* model.training: TRUE after .train(), FALSE after .eval()
    frozen,             \* the frozen-layer policy is in effect
    params,             \* version of the model parameters (one per optimizer step)
    calls,              \* how often loss_fn, zero_grad, backward, step, val_loss ran
    agg_fg_loss,        \* running loss accumulators of the current loop
    agg_bg_loss,
    pools_none,         \* the latest sample's pool result was None
    ckpt_saved,         \* the latest file torch.save wrote
    log_records         \* the records the logger got in the latest step

vars == <<sample, triplet_pools, pc, args, train_data_len, val_data_len, epoch,
          next_idx, training, frozen, params, calls, agg_fg_loss, agg_bg_loss,
          pools_none, ckpt_saved, log_records>>

-----------------------------------------------------------------------------
(* Tensor operations (torch)                                               *)

\* All index tuples of a tensor of the given shape (2-D or 3-D).
Indices(shape) ==
    IF Len(shape) = 2
    THEN (0..(shape[1] - 1)) \X (0..(shape[2] - 1))
    ELSE (0..(shape[1] - 1)) \X (0..(shape[2] - 1)) \X (0..(shape[3] - 1))

\* torch.cat([A, B], dim): B appended to A along the 0-based axis dim.
torch_cat(A, B, dim) ==
    LET n == A.shape[dim + 1]
        shape == [A.shape EXCEPT ![dim + 1] = n + B.shape[dim + 1]]
    IN [shape |-> shape,
        data |-> [i \in Indices(shape) |->
                    IF i[dim + 1] < n
                    THEN A.data[i]
                    ELSE B.data[[i EXCEPT ![dim + 1] = @ - n]]]]

\* torch.nonzero of a 2-D tensor: the indices of its non-zero elements, in
\* row-major order, one <<row, column>> pair each.
nonzero(T) ==
    LET w == T.shape[2]
        all == [k \in 1..(T.shape[1] * w) |-> <<(k - 1) \div w, (k - 1) % w>>]
    IN SelectSeq(all, LAMBDA i : T.data[i] # 0)

\* T == 0, elementwise.
eq_zero(T) ==
    [shape |-> T.shape,
     data |-> [i \in DOMAIN T.data |-> IF T.data[i] = 0 THEN 1 ELSE 0]]

\* indices.numel(): an index tensor of n rows and 2 columns.
numel(indices) == Len(indices) * 2

Raise(exc) == [kind |-> "raise", exc |-> exc]
ReturnNone == [kind |-> "None"]
Return(items) == [kind |-> "list", items |-> items]
NotCalled == [kind |-> "not called"]

\* E[:, x, y]: the embedding vector at row x and column y.
vector_at(E, x, y) == [k \in 1..E.shape[1] |-> E.data[<<k - 1, x, y>>]]

\* torch.cat([E[:, x, y].unsqueeze(0) for x, y in indices]): the batch of the
\* vectors at the indices, in their order.  Indexing outside the field raises
\* IndexError, and torch.cat of an empty list raises RuntimeError.
gather(E, indices) ==
    IF \E i \in 1..Len(indices) :
          ~(indices[i][1] < E.shape[2] /\ indices[i][2] < E.shape[3])
    THEN Raise("IndexError")
    ELSE IF Len(indices) = 0
    THEN Raise("RuntimeError")
    ELSE [kind |-> "batch",
          rows |-> [i \in 1..Len(indices) |->
                      vector_at(E, indices[i][1], indices[i][2])]]

-----------------------------------------------------------------------------
(* The embedding network and the samples                                   *)

\* model(sample_frames): one embedding field of shape (D, H', W') per frame;
\* frame f's scalar at (k, r, c) is the tag <<f, k, r, c>>.
model(sample_frames) ==
    [f \in 1..3 |->
        LET shape == <<EmbDim, sample_frames.shape[1], sample_frames.shape[2]>>
        IN [shape |-> shape,
            data |-> [i \in Indices(shape) |-> <<f - 1, i[1], i[2], i[3]>>]]]

Shapes == {s \in (1..MaxPixels) \X (1..MaxPixels) : s[1] * s[2] <= MaxPixels}

Masks(shape) == {[shape |-> shape, data |-> d] : d \in [Indices(shape) -> {0, 1}]}

\* A sample of the data loader: three frames and their three annotation masks,
\* all of the same reduced size.
SamplesOf(shape) ==
    {[image |-> [shape |-> shape], annotation |-> <<a, f1, f2>>] :
        a \in Masks(shape), f1 \in Masks(shape), f2 \in Masks(shape)}

\* A mask with the given foreground pixels.
MaskWith(shape, fg) ==
    [shape |-> shape,
     data |-> [i \in Indices(shape) |-> IF i \in fg THEN 1 ELSE 0]]

\* The 4x4 sample: the anchor mask has only pixel (0, 0) foreground, the first
\* pool frame only pixel (3, 3), the second pool frame none.
Example4x4 ==
    [image |-> [shape |-> <<4, 4>>],
     annotation |-> <<MaskWith(<<4, 4>>, {<<0, 0>>}),
                      MaskWith(<<4, 4>>, {<<3, 3>>}),
                      MaskWith(<<4, 4>>, {})>>]

-----------------------------------------------------------------------------
(* create_triplet_pools                                                    *)

\* A slip: the two pool frames stacked in the other order.
embedding_pool_points_swapped(embeddings) ==
    torch_cat(embeddings[3], embeddings[2], 2)

\* embedding_pool_points: frame 1 and frame 2 stacked along axis 2.
embedding_pool_points(embeddings) ==
    torch_cat(embeddings[2], embeddings[3], 2)

\* A slip: the second pool frame's mask left out.
all_pool_points_first_only(smp) ==
    smp.annotation[2]

\* all_pool_points: the masks of frame 1 and frame 2 stacked along axis 1.
all_pool_points(smp) ==
    torch_cat(smp.annotation[2], smp.annotation[3], 1)

\* The first guard: no foreground or no background anchor point.
anchor_guard(fg_anchor_indices, bg_anchor_indices) ==
    numel(fg_anchor_indices) = 0 \/ numel(bg_anchor_indices) = 0

\* A slip: the background half of the second guard left out.
pool_guard_fg_only(fg_pool_indices, bg_pool_indices) ==
    numel(fg_pool_indices) = 0

\* The second guard: no foreground or no background pool point.
pool_guard(fg_pool_indices, bg_pool_indices) ==
    numel(fg_pool_indices) = 0 \/ numel(bg_pool_indices) = 0

\* A slip: each class's negative pool set to its own positive pool.
pools_list_unswapped(fg_embedding_a, fg_positive_pool, bg_embedding_a, bg_positive_pool) ==
    <<fg_embedding_a, fg_positive_pool, fg_positive_pool,
      bg_embedding_a, bg_positive_pool, bg_positive_pool>>

\* The returned list: the negative pools are the other class's positive pools.
pools_list(fg_embedding_a, fg_positive_pool, bg_embedding_a, bg_positive_pool) ==
    LET fg_negative_pool == bg_positive_pool
        bg_negative_pool == fg_positive_pool
    IN <<fg_embedding_a, fg_positive_pool, fg_negative_pool,
         bg_embedding_a, bg_positive_pool, bg_negative_pool>>

create_triplet_pools(smp, embeddings) ==
    LET embedding_a == embeddings[1]
        pool_points == embedding_pool_points(embeddings)
        anchor_points == smp.annotation[1]
        fg_anchor_indices == nonzero(anchor_points)
        bg_anchor_indices == nonzero(eq_zero(anchor_points))
    IN IF anchor_guard(fg_anchor_indices, bg_anchor_indices)
       THEN ReturnNone
       ELSE
         LET pool_mask == all_pool_points(smp)
             fg_pool_indices == nonzero(pool_mask)
             bg_pool_indices == nonzero(eq_zero(pool_mask))
         IN IF pool_guard(fg_pool_indices, bg_pool_indices)
            THEN ReturnNone
            ELSE
              LET fg_embedding_a == gather(embedding_a, fg_anchor_indices)
                  bg_embedding_a == gather(embedding_a, bg_anchor_indices)
                  fg_positive_pool == gather(pool_points, fg_pool_indices)
                  bg_positive_pool == gather(pool_points, bg_pool_indices)
              IN IF fg_embedding_a.kind = "raise" THEN fg_embedding_a
                 ELSE IF bg_embedding_a.kind = "raise" THEN bg_embedding_a
                 ELSE IF fg_positive_pool.kind = "raise" THEN fg_positive_pool
                 ELSE IF bg_positive_pool.kind = "raise" THEN bg_positive_pool
                 ELSE Return(pools_list(fg_embedding_a.rows, fg_positive_pool.rows,
                                        bg_embedding_a.rows, bg_positive_pool.rows))

-----------------------------------------------------------------------------
(* The pool builder on its own: every sample of every shape within the     *)
(* bounds, and the 4x4 sample.                                             *)

NoSample == [image |-> [shape |-> <<0, 0>>], annotation |-> <<>>]

LoopIdle ==
    /\ args = [num_epochs |-> 0, log_interval |-> 1, checkpoint_interval |-> 1,
               num_val_samples |-> -1]
    /\ train_data_len = 0
    /\ val_data_len = 0
    /\ epoch = 0
    /\ next_idx = 0
    /\ training = TRUE
    /\ frozen = TRUE
    /\ params = 0
    /\ calls = [loss_fn |-> 0, zero_grad |-> 0, backward |-> 0, step |-> 0,
                val_loss |-> 0]
    /\ agg_fg_loss = 0
    /\ agg_bg_loss = 0
    /\ pools_none = FALSE
    /\ ckpt_saved = <<>>
    /\ log_records = <<>>

PoolsInit ==
    /\ \/ \E s \in Shapes : sample \in SamplesOf(s)
       \/ sample = Example4x4
    /\ triplet_pools = NotCalled
    /\ pc = "pools_call"
    /\ LoopIdle

CallCreateTripletPools ==
    /\ pc = "pools_call"
    /\ triplet_pools' = create_triplet_pools(sample, model(sample.image))
    /\ pc' = "pools_returned"
    /\ UNCHANGED <<sample, args, train_data_len, val_data_len, epoch, next_idx,
                   training, frozen, params, calls, agg_fg_loss, agg_bg_loss,
                   pools_none, ckpt_saved, log_records>>

PoolsNext == CallCreateTripletPools

SpecPools == PoolsInit /\ [][PoolsNext]_vars

-----------------------------------------------------------------------------
(* main, train and validate                                                *)

\* What a loss's .item() may be: zero (every margin is met) or positive.
LossValues == {0, 1}

\* The samples the data loaders yield: every sample of 1x2 frames.
DataSet == SamplesOf(<<1, 2>>)

\* What the loops get for a sample: embeddings = model(sample_frames), then
\* create_triplet_pools(sample, embeddings).
PoolsOf == [smp \in DataSet |-> create_triplet_pools(smp, model(smp.image))]

\* The pool results of the data set as the loops see them: None, a list or an
\* exception.  The loops only hand a list's batches on to the loss function,
\* whose value is drawn from LossValues, so the batches are left out here.
PoolResults == {[kind |-> PoolsOf[smp].kind] : smp \in DataSet}

\* model.eval(), model.train() and model.freeze_feature_extraction(), on the
\* model's mode [training, frozen].  train() puts every layer back in training
\* mode, so the frozen-layer policy has to be applied again after it.
model_eval(m) == [m EXCEPT !.training = FALSE]
model_train(m) == [training |-> TRUE, frozen |-> FALSE]
freeze_feature_extraction(m) == [m EXCEPT !.frozen = TRUE]

\* The checkpoint block of train: eval, save, train, freeze.
mode_after_checkpoint(m) ==
    freeze_feature_extraction(model_train(model_eval(m)))

\* validate's first statement: model.eval(), and nothing that undoes it.
mode_in_validate(m) == model_eval(m)

Init ==
    /\ sample = NoSample
    /\ triplet_pools = NotCalled
    /\ args \in [num_epochs : 1..MaxEpochs,
                 log_interval : 1..MaxInterval,
                 checkpoint_interval : 1..MaxInterval,
                 num_val_samples : (-1)..MaxSamples]
    /\ train_data_len \in 0..MaxSamples
    /\ val_data_len \in 0..MaxSamples
    /\ pc = "main"
    /\ epoch = 0
    /\ next_idx = 0
    /\ training = TRUE
    /\ frozen = TRUE
    /\ params = 0
    /\ calls = [loss_fn |-> 0, zero_grad |-> 0, backward |-> 0, step |-> 0,
                val_loss |-> 0]
    /\ agg_fg_loss = 0
    /\ agg_bg_loss = 0
    /\ pools_none = FALSE
    /\ ckpt_saved = <<>>
    /\ log_records = <<>>

\* main: the next epoch begins and train is entered.
MainEpoch ==
    /\ pc = "main"
    /\ epoch < args.num_epochs
    /\ pc' = "train"
    /\ agg_fg_loss' = 0
    /\ agg_bg_loss' = 0
    /\ next_idx' = 0
    /\ log_records' = << <<"info", "epoch", epoch + 1, 0>> >>
    /\ UNCHANGED <<sample, triplet_pools, args, train_data_len, val_data_len,
                   epoch, training, frozen, params, calls, pools_none, ckpt_saved>>

\* A slip: the optimizer runs before the pool result is looked at.
TrainSkip_steps(idx) ==
    /\ log_records' = << <<"debug", "skip", epoch + 1, idx + 1>> >>
    /\ params' = params + 1
    /\ calls' = [calls EXCEPT !.zero_grad = @ + 1, !.step = @ + 1]
    /\ UNCHANGED <<agg_fg_loss, agg_bg_loss, training, frozen, ckpt_saved>>

\* train, triplet_pools is None: the iteration is skipped.
TrainSkip(idx) ==
    /\ log_records' = << <<"debug", "skip", epoch + 1, idx + 1>> >>
    /\ UNCHANGED <<params, calls, agg_fg_loss, agg_bg_loss, training, frozen,
                   ckpt_saved>>

\* train, the rest of the loop body for a sample with pools.
TrainProcess(idx, fg_loss, bg_loss) ==
    LET log == (idx + 1) % args.log_interval = 0
        checkpoint == (idx + 1) % args.checkpoint_interval = 0
        mode == IF checkpoint
                THEN mode_after_checkpoint([training |-> training, frozen |-> frozen])
                ELSE [training |-> training, frozen |-> frozen]
    IN /\ calls' = [calls EXCEPT !.loss_fn = @ + 2, !.zero_grad = @ + 1,
                                 !.backward = @ + 1, !.step = @ + 1]
       /\ params' = params + 1
       /\ agg_fg_loss' = agg_fg_loss + fg_loss
       /\ agg_bg_loss' = agg_bg_loss + bg_loss
       /\ ckpt_saved' = IF checkpoint
                        THEN <<"ckpt", epoch + 1, idx + 1, params + 1>>
                        ELSE ckpt_saved
       /\ training' = mode.training
       /\ frozen' = mode.frozen
       /\ log_records' =
            (IF log THEN << <<"info", "train", epoch + 1, idx + 1>> >> ELSE <<>>)
            \o (IF checkpoint
                THEN << <<"info", "checkpoint", epoch + 1, idx + 1>> >>
                ELSE <<>>)

\* One iteration of train's loop.
TrainIteration ==
    /\ pc = "train"
    /\ next_idx < train_data_len
    /\ \E pools \in PoolResults :
          LET idx == next_idx
          IN /\ pools_none' = (pools = ReturnNone)
             /\ next_idx' = idx + 1
             /\ IF pools = ReturnNone
                THEN TrainSkip(idx)
                ELSE \E fg_loss \in LossValues, bg_loss \in LossValues :
                        TrainProcess(idx, fg_loss, bg_loss)
    /\ UNCHANGED <<sample, triplet_pools, pc, args, train_data_len, val_data_len,
                   epoch>>

\* train's data loader is exhausted: train returns and main enters validate.
TrainReturn ==
    /\ pc = "train"
    /\ next_idx = train_data_len
    /\ pc' = "validate"
    /\ training' = mode_in_validate([training |-> training, frozen |-> frozen]).training
    /\ frozen' = mode_in_validate([training |-> training, frozen |-> frozen]).frozen
    /\ agg_fg_loss' = 0
    /\ agg_bg_loss' = 0
    /\ next_idx' = 0
    /\ log_records' = <<>>
    /\ UNCHANGED <<sample, triplet_pools, args, train_data_len, val_data_len,
                   epoch, params, calls, pools_none, ckpt_saved>>

\* validate, the loop body after the pool result was unpacked.
ValidateProcess(idx, fg_loss, bg_loss) ==
    LET last == idx = args.num_val_samples
        log == (idx + 1) % args.log_interval = 0 \/ last
    IN /\ calls' = [calls EXCEPT !.val_loss = @ + 2]
       /\ agg_fg_loss' = agg_fg_loss + fg_loss
       /\ agg_bg_loss' = agg_bg_loss + bg_loss
       /\ log_records' =
            IF log THEN << <<"info", "val", epoch + 1, idx + 1>> >> ELSE <<>>
       /\ next_idx' = idx + 1
       /\ IF last
          THEN pc' = "main" /\ epoch' = epoch + 1
          ELSE UNCHANGED <<pc, epoch>>

\* One iteration of validate's loop.  The pool result is unpacked into six
\* names as it comes: unpacking None raises TypeError, which nothing catches.
ValidateIteration ==
    /\ pc = "validate"
    /\ next_idx < val_data_len
    /\ \E pools \in PoolResults :
          LET idx == next_idx
          IN /\ pools_none' = (pools = ReturnNone)
             /\ IF pools.kind = "list"
                THEN \E fg_loss \in LossValues, bg_loss \in LossValues :
                        ValidateProcess(idx, fg_loss, bg_loss)
                ELSE /\ pc' = "raised"
                     /\ log_records' = <<>>
                     /\ UNCHANGED <<calls, agg_fg_loss, agg_bg_loss, next_idx, epoch>>
    /\ UNCHANGED <<sample, triplet_pools, args, train_data_len, val_data_len,
                   training, frozen, params, ckpt_saved>>

\* validate's data loader is exhausted: validate returns to main's loop.
ValidateReturn ==
    /\ pc = "validate"
    /\ next_idx = val_data_len
    /\ pc' = "main"
    /\ epoch' = epoch + 1
    /\ log_records' = <<>>
    /\ UNCHANGED <<sample, triplet_pools, args, train_data_len, val_data_len,
                   next_idx, training, frozen, params, calls, agg_fg_loss,
                   agg_bg_loss, pools_none, ckpt_saved>>

\* main after the last epoch: the final model is saved.
MainFinalSave ==
    /\ pc = "main"
    /\ epoch = args.num_epochs
    /\ pc' = "done"
    /\ training' = model_eval([training |-> training, frozen |-> frozen]).training
    /\ ckpt_saved' = <<"model", args.num_epochs, 0, params>>
    /\ log_records' = << <<"info", "model saved", args.num_epochs, 0>>,
                         <<"info", "config saved", args.num_epochs, 0>> >>
    /\ UNCHANGED <<sample, triplet_pools, args, train_data_len, val_data_len,
                   epoch, next_idx, frozen, params, calls, agg_fg_loss,
                   agg_bg_loss, pools_none>>

Next ==
    \/ MainEpoch
    \/ TrainIteration
    \/ TrainReturn
    \/ ValidateIteration
    \/ ValidateReturn
    \/ MainFinalSave

Spec == Init /\ [][Next]_vars

-----------------------------------------------------------------------------
(* Properties of create_triplet_pools                                      *)

FgPixels(mask) == {i \in Indices(mask.shape) : mask.data[i] = 1}
BgPixels(mask) == {i \in Indices(mask.shape) : mask.data[i] = 0}

AnchorMask == sample.annotation[1]
MaskF1 == sample.annotation[2]
MaskF2 == sample.annotation[3]

AnyIndexSetEmpty ==
    \/ FgPixels(AnchorMask) = {}
    \/ BgPixels(AnchorMask) = {}
    \/ FgPixels(MaskF1) \cup FgPixels(MaskF2) = {}
    \/ BgPixels(MaskF1) \cup BgPixels(MaskF2) = {}

PoolsReturned == pc = "pools_returned"
ValidPools == PoolsReturned /\ triplet_pools.kind = "list"
Range(seq) == {seq[i] : i \in DOMAIN seq}

\* C1: when any of the four index sets (foreground of A, background of A,
\* foreground of F1 and F2 combined, background of F1 and F2 combined) is
\* empty, create_triplet_pools returns None and raises nothing; when all four
\* are non-empty it returns a list of six batches.
C1_PoolEmptinessGuard ==
    PoolsReturned =>
        IF AnyIndexSetEmpty
        THEN triplet_pools = ReturnNone
        ELSE triplet_pools.kind = "list" /\ Len(triplet_pools.items) = 6

\* The anchor mask has both classes, the pool frames have no background pixel,
\* and the builder has returned None.
C1_Witness ==
    /\ PoolsReturned
    /\ FgPixels(AnchorMask) # {}
    /\ BgPixels(AnchorMask) # {}
    /\ BgPixels(MaskF1) \cup BgPixels(MaskF2) = {}
    /\ triplet_pools = ReturnNone

\* C6: for a valid input, fg_positive_pool has as many vectors as F1 and F2
\* have foreground pixels, bg_positive_pool as many as they have background
\* pixels, fg_embedding_a as many as the anchor mask has foreground pixels and
\* bg_embedding_a as many as it has background pixels.
C6_PoolCardinality ==
    (PoolsReturned /\ ~AnyIndexSetEmpty) =>
        /\ triplet_pools.kind = "list"
        /\ Len(triplet_pools.items[2])
             = Cardinality(FgPixels(MaskF1)) + Cardinality(FgPixels(MaskF2))
        /\ Len(triplet_pools.items[5])
             = Cardinality(BgPixels(MaskF1)) + Cardinality(BgPixels(MaskF2))
        /\ Len(triplet_pools.items[1]) = Cardinality(FgPixels(AnchorMask))
        /\ Len(triplet_pools.items[4]) = Cardinality(BgPixels(AnchorMask))

\* The 4x4 sample whose anchor mask has only pixel (0, 0) foreground has been
\* processed: fg_embedding_a has length 1 and bg_embedding_a length 15.
C6_Witness ==
    /\ ValidPools
    /\ sample = Example4x4
    /\ Len(triplet_pools.items[1]) = 1
    /\ Len(triplet_pools.items[4]) = 15

\* C7: the combined pool mask and the combined embedding field are both
\* stacked along the column axis and are W'(F1) + W'(F2) wide; at every
\* combined coordinate (r, c) the mask value and the embedding vector are
\* those of F1 at (r, c) when c < W'(F1) and those of F2 at (r, c - W'(F1))
\* otherwise; and every vector of fg_positive_pool (bg_positive_pool) is the
\* embedding of a pixel labelled foreground (background) in its own frame.
C7_ConcatenationCorrectness ==
    PoolsReturned =>
        LET embeddings == model(sample.image)
            m == all_pool_points(sample)
            e == embedding_pool_points(embeddings)
            h == MaskF1.shape[1]
            w1 == MaskF1.shape[2]
            w2 == MaskF2.shape[2]
            Own(c) == IF c < w1 THEN <<2, c>> ELSE <<3, c - w1>>
            VectorsOf(f, pixels) ==
                {vector_at(embeddings[f], p[1], p[2]) : p \in pixels}
        IN /\ m.shape = <<h, w1 + w2>>
           /\ e.shape = <<EmbDim, h, w1 + w2>>
           /\ \A r \in 0..(h - 1), c \in 0..(w1 + w2 - 1) :
                 /\ m.data[<<r, c>>] = sample.annotation[Own(c)[1]].data[<<r, Own(c)[2]>>]
                 /\ vector_at(e, r, c) = vector_at(embeddings[Own(c)[1]], r, Own(c)[2])
           /\ triplet_pools.kind = "list" =>
                 /\ Range(triplet_pools.items[2])
                      \subseteq VectorsOf(2, FgPixels(MaskF1)) \cup VectorsOf(3, FgPixels(MaskF2))
                 /\ Range(triplet_pools.items[5])
                      \subseteq VectorsOf(2, BgPixels(MaskF1)) \cup VectorsOf(3, BgPixels(MaskF2))

\* A valid 2x2 sample whose two pool frames differ and whose second pool frame
\* holds a foreground pixel has been processed.
C7_Witness ==
    /\ ValidPools
    /\ sample.image.shape = <<2, 2>>
    /\ MaskF1 # MaskF2
    /\ FgPixels(MaskF2) # {}
    /\ BgPixels(MaskF1) # {}

\* C8: for a valid input fg_negative_pool = bg_positive_pool and
\* bg_negative_pool = fg_positive_pool, and the list is in the order
\* (fg_anchor, fg_positive_pool, fg_negative_pool, bg_anchor,
\* bg_positive_pool, bg_negative_pool).
C8_RoleSwapSymmetry ==
    ValidPools =>
        LET embeddings == model(sample.image)
            items == triplet_pools.items
            VectorsOf(f, pixels) ==
                {vector_at(embeddings[f], p[1], p[2]) : p \in pixels}
        IN /\ items[3] = items[5]
           /\ items[6] = items[2]
           /\ Range(items[1]) = VectorsOf(1, FgPixels(AnchorMask))
           /\ Range(items[4]) = VectorsOf(1, BgPixels(AnchorMask))
           /\ Range(items[2])
                = VectorsOf(2, FgPixels(MaskF1)) \cup VectorsOf(3, FgPixels(MaskF2))
           /\ Range(items[5])
                = VectorsOf(2, BgPixels(MaskF1)) \cup VectorsOf(3, BgPixels(MaskF2))

\* A valid sample has been processed and its two positive pools differ.
C8_Witness ==
    /\ ValidPools
    /\ triplet_pools.items[2] # triplet_pools.items[5]
    /\ Len(triplet_pools.items[2]) > 1

-----------------------------------------------------------------------------
(* Properties of train, validate and main                                  *)

\* A step of validate's loop that fetched a sample.
ValidateFetch == pc = "validate" /\ next_idx < val_data_len
\* validate has ended: it returned to main's loop, or an exception left it.
AfterValidate == (pc = "main" /\ epoch >= 1) \/ pc = "raised"

\* C2: in the validation loop a degenerate sample (the pool builder returns
\* None) is skipped: no exception leaves validate, the loss accumulators are
\* not changed by that sample, and the loop goes on to the next sample.
C2_ValidateSkipsDegenerate ==
    [][(ValidateFetch /\ pools_none') =>
          /\ pc' # "raised"
          /\ agg_fg_loss' = agg_fg_loss
          /\ agg_bg_loss' = agg_bg_loss
          /\ next_idx' = next_idx + 1]_vars

\* C3: in the training loop, for every sample for which the pool builder
\* returns None, the loss accumulators and the model parameters are the same
\* before and after the sample is processed, and no loss is computed, no
\* gradient zeroed, no backpropagation run and no optimizer step taken.
C3_SkipDoesNotMutate ==
    [][(pc = "train" /\ next_idx' = next_idx + 1 /\ pools_none') =>
          /\ agg_fg_loss' = agg_fg_loss
          /\ agg_bg_loss' = agg_bg_loss
          /\ params' = params
          /\ calls' = calls]_vars

\* train has just skipped a degenerate sample that came after a sample with a
\* positive loss in the same epoch.
C3_Witness ==
    /\ pc = "train"
    /\ pools_none
    /\ next_idx >= 2
    /\ agg_fg_loss > 0
    /\ params > 0

\* C4: with a data source of N samples and a cap k < N, one call of validate
\* processes exactly k + 1 samples and then stops; with fewer than k + 1
\* samples the loop ends when the source is exhausted.
C4_ValidationCap ==
    AfterValidate =>
        /\ pc = "main"
        /\ next_idx = IF args.num_val_samples < val_data_len
                      THEN args.num_val_samples + 1
                      ELSE val_data_len

\* C5: in every training epoch, for every sample index idx with (idx + 1)
\* divisible by checkpoint_interval, the parameters are saved to a checkpoint
\* tagged epoch + 1 and idx + 1 before the next sample is fetched, whether the
\* sample is valid or degenerate.
C5_CheckpointEveryInterval ==
    [][(pc = "train" /\ next_idx' = next_idx + 1
            /\ (next_idx + 1) % args.checkpoint_interval = 0) =>
          ckpt_saved' = <<"ckpt", epoch + 1, next_idx + 1, params'>>]_vars

\* C9: in the validation loop a log record is emitted at every processed
\* sample idx with (idx + 1) divisible by log_interval, and at the last sample
\* the loop processes, whether the cap or the end of the data source ends it.
C9_ValidateLogsTerminalSample ==
    [][(ValidateFetch /\ next_idx' = next_idx + 1
            /\ \/ (next_idx + 1) % args.log_interval = 0
               \/ next_idx = args.num_val_samples
               \/ next_idx + 1 = val_data_len) =>
          \E i \in DOMAIN log_records' :
              log_records'[i] = <<"info", "val", epoch + 1, next_idx + 1>>]_vars

\* C10: whenever train runs a forward pass and an optimizer step, the model is
\* in training mode with the frozen-layer policy applied.
C10_TrainingModeAtEveryStep ==
    [][(pc = "train" /\ params' # params) => (training /\ frozen)]_vars

====
